---- MODULE Spec2Model ----
(***************************************************************************)
(* Coverage-report ingestion of cover_agent (CoverageProcessor):           *)
(* freshness verification, dispatch on the coverage type, and the          *)
(* Cobertura, LCOV and diff-cover parsers.                                 *)
(*                                                                         *)
(* Text is modelled as a sequence of tokens (a token is one character or   *)
(* an atomic run of characters such as "SF:" or "end_of_record"), so that  *)
(* endswith, startswith, basename and split act on the text itself.        *)
(* A ratio n/d is the pair <<n, d>>; two ratios are compared by RatioEq.   *)
(***************************************************************************)
EXTENDS Integers, Sequences, FiniteSets, TLC

VARIABLES
    coverage_type,      \* self.coverage_type
    flag,               \* self.use_report_coverage_feature_flag
    src_file_path,      \* self.src_file_path (text)
    reportExists,       \* whether the file at self.file_path exists
    xml,                \* contents of the report when it is Cobertura XML
    lcov,               \* contents of the report when it is LCOV text
    diff,               \* src_stats of the diff-cover JSON report, in iteration order
    pc,                 \* position of the call
    entry,              \* the public method the caller invoked
    time_of_test_command,   \* argument of process_coverage_report
    file_mod_time_ms,   \* local of verify_report_update
    filename,           \* argument of parse_coverage_report_cobertura
    calls,              \* methods entered so far, in order
    opened,             \* files opened so far
    log,                \* logger records emitted so far
    result,             \* value returned to the caller
    error               \* exception raised to the caller

vars == <<coverage_type, flag, src_file_path, reportExists, xml, lcov, diff, pc, entry,
          time_of_test_command, file_mod_time_ms, filename, calls, opened, log, result, error>>

config == <<coverage_type, flag, src_file_path, reportExists, xml, lcov, diff>>

(***************************************************************************)
(* Bounds of the model                                                     *)
(***************************************************************************)
MaxLine == 2          \* line numbers are 1..MaxLine
MaxClasses == 2       \* class elements in a Cobertura document
MaxLcovLines == 5     \* text lines in an LCOV report
MaxStats == 2         \* entries of src_stats in a diff-cover report
MaxTime == 1          \* timestamps are 0..MaxTime

None == <<"None">>    \* Python's None, where a text or a number is expected
NoTime == -1

(***************************************************************************)
(* Text helpers                                                            *)
(***************************************************************************)
Sep == "/"

Min(a, b) == IF a < b THEN a ELSE b

\* str.endswith
EndsWith(s, suffix) ==
    /\ Len(suffix) <= Len(s)
    /\ SubSeq(s, Len(s) - Len(suffix) + 1, Len(s)) = suffix

\* str.startswith
StartsWith(s, prefix) ==
    /\ Len(prefix) <= Len(s)
    /\ SubSeq(s, 1, Len(prefix)) = prefix

\* Python truthiness of an optional text: None and "" are false
Truthy(s) == s # None /\ s # <<>>

\* Index of the last separator in s, or 0
RECURSIVE LastSep(_, _)
LastSep(s, i) ==
    IF i = 0 THEN 0
    ELSE IF s[i] = Sep THEN i
    ELSE LastSep(s, i - 1)

\* os.path.basename: the text after the last separator
Basename(p) == SubSeq(p, LastSep(p, Len(p)) + 1, Len(p))

\* str.split(sep) on a single-token separator: the components, empty ones included
RECURSIVE SplitFrom(_, _, _, _)
SplitFrom(s, sep, i, cur) ==
    IF i > Len(s) THEN <<cur>>
    ELSE IF s[i] = sep THEN <<cur>> \o SplitFrom(s, sep, i + 1, <<>>)
    ELSE SplitFrom(s, sep, i + 1, Append(cur, s[i]))

Split(s, sep) == SplitFrom(s, sep, 1, <<>>)

\* str.replace(pat, ""), pat a single token
RECURSIVE Remove(_, _)
Remove(s, pat) ==
    IF s = <<>> THEN <<>>
    ELSE IF Head(s) = pat THEN Remove(Tail(s), pat)
    ELSE <<Head(s)>> \o Remove(Tail(s), pat)

\* Components of a relative path after os.path.relpath (normpath drops the
\* empty components a doubled or trailing separator leaves)
RECURSIVE DropEmpty(_)
DropEmpty(comps) ==
    IF comps = <<>> THEN <<>>
    ELSE IF Head(comps) = <<>> THEN DropEmpty(Tail(comps))
    ELSE <<Head(comps)>> \o DropEmpty(Tail(comps))

RelpathComponents(p) == DropEmpty(Split(p, Sep))

\* The components joined by the separator
RECURSIVE Join(_)
Join(comps) ==
    IF comps = <<>> THEN <<>>
    ELSE IF Len(comps) = 1 THEN comps[1]
    ELSE comps[1] \o <<Sep>> \o Join(Tail(comps))

\* int() of a decimal numeral held in one token
ParseInt(tok) == CHOOSE n \in 0..9 : ToString(n) = tok

\* list[-n:] (list[-0:] is the whole list)
LastN(s, n) == IF n = 0 THEN s ELSE SubSeq(s, Len(s) - Min(n, Len(s)) + 1, Len(s))

\* set(list)
ToSet(s) == {s[i] : i \in 1..Len(s)}

\* list(set) of small integers: CPython iterates them in ascending order
RECURSIVE ToList(_)
ToList(S) ==
    IF S = {} THEN <<>>
    ELSE LET m == CHOOSE x \in S : \A y \in S : x <= y
         IN <<m>> \o ToList(S \ {m})

(***************************************************************************)
(* Ratios                                                                  *)
(***************************************************************************)
\* (n / total) if total else 0
Percentage(n, total) == IF total # 0 THEN <<n, total>> ELSE <<0, 1>>

RatioEq(r, q) == r[1] * q[2] = q[1] * r[2]

(***************************************************************************)
(* Values returned                                                         *)
(***************************************************************************)
Triple(c, m, r) == [covered |-> c, missed |-> m, ratio |-> r]

NoTriple == Triple(<<>>, <<>>, <<0, 1>>)

NoResult == [kind |-> "none", triple |-> NoTriple, data |-> <<>>]

TripleResult(t) == [kind |-> "triple", triple |-> t, data |-> <<>>]

\* A dict from filename to triple, as the function d
MappingResult(d) == [kind |-> "mapping", triple |-> NoTriple, data |-> d]

NoError == [type |-> "none", names |-> None]

(***************************************************************************)
(* Reports                                                                 *)
(***************************************************************************)
Text(n) == ToString(n)

LineNumbers == 1..MaxLine

HitCounts == {0, 1}

\* <line number=".." hits=".."/>
XmlLines == {[number |-> Text(n), hits |-> Text(h)] : n \in LineNumbers, h \in HitCounts}

\* <class filename="..">: its own line elements, and whether the element lies
\* inside the nearest preceding class element that is not itself nested
XmlFilenames == {<<>>, <<"q", "/", "a">>, <<"p", "/", "a">>}

XmlClassBodies == {<<>>} \cup {<<l>> : l \in XmlLines}

XmlClasses ==
    [filename : XmlFilenames, lines : XmlClassBodies, nested : BOOLEAN]

\* The class elements of a document, in document order
XmlDocs ==
    UNION {{d \in [1..k -> XmlClasses] : k > 0 => ~d[1].nested} : k \in 0..MaxClasses}

\* LCOV text lines
SFLine(path) == <<"SF:">> \o path

DALine(n, h) == <<"DA:", Text(n), ",", Text(h)>>

EndOfRecord == <<"end_of_record">>

FNLine == <<"FN:", "1", ",", "f">>

LcovPaths == {<<"q", "/", "a">>, <<"m", "a">>, <<"b">>}

LcovBodyLines == {DALine(n, h) : n \in LineNumbers, h \in HitCounts} \cup {FNLine}

LcovBodies(n) == UNION {[1..k -> LcovBodyLines] : k \in 0..n}

\* Well-formed reports of at most n text lines: records SF, body, end_of_record
RECURSIVE LcovReports(_)
LcovReports(n) ==
    {<<>>} \cup
    (IF n < 2 THEN {}
     ELSE UNION {UNION {{<<SFLine(p)>> \o b \o <<EndOfRecord>> \o rest :
                            rest \in LcovReports(n - 2 - Len(b))} :
                        b \in LcovBodies(n - 2)} :
                 p \in LcovPaths})

\* diff-cover: src_stats as the sequence of its (key, stats) items
DiffKeys ==
    {<<"a">>, <<"q", "/", "a">>, <<"m", "q", "/", "a">>, <<"r", "/", "q", "/", "a">>}

DiffStats ==
    {[covered_lines |-> <<1>>, violation_lines |-> <<2>>, percent_covered |-> 50],
     [covered_lines |-> <<1>>, violation_lines |-> <<1>>, percent_covered |-> 50],
     [covered_lines |-> <<1, 2>>, violation_lines |-> <<>>, percent_covered |-> 50],
     [covered_lines |-> <<>>, violation_lines |-> <<2>>, percent_covered |-> 0]}

DiffItems == [key : DiffKeys, stats : DiffStats]

DiffReports ==
    UNION {{d \in [1..k -> DiffItems] : \A i, j \in 1..k : d[i].key = d[j].key => i = j} :
           k \in 0..MaxStats}

SupportedTypes == {"cobertura", "lcov", "diff_cover_json"}

CoverageTypes == SupportedTypes \cup {"unsupported_type", "jacoco"}

SourcePaths == {<<"q", "/", "a">>, <<"p", "/">>, <<"b">>}

(***************************************************************************)
(* Cobertura parser                                                        *)
(***************************************************************************)
\* The line elements of the classes j, j+1, ... that are nested
RECURSIVE NestedLines(_, _)
NestedLines(doc, j) ==
    IF j > Len(doc) \/ ~doc[j].nested THEN <<>>
    ELSE doc[j].lines \o NestedLines(doc, j + 1)

\* cls.findall(".//line"): every line element below class i, in document order
FindAllLines(doc, i) ==
    doc[i].lines \o (IF doc[i].nested THEN <<>> ELSE NestedLines(doc, i + 1))

\* The loop of parse_coverage_data_for_class over the line elements
RECURSIVE ClassifyLines(_, _, _)
ClassifyLines(lines, lines_covered, lines_missed) ==
    IF lines = <<>> THEN <<lines_covered, lines_missed>>
    ELSE LET line_number == ParseInt(Head(lines).number)
             hits == ParseInt(Head(lines).hits)
         IN IF hits > 0
            THEN ClassifyLines(Tail(lines), Append(lines_covered, line_number), lines_missed)
            ELSE ClassifyLines(Tail(lines), lines_covered, Append(lines_missed, line_number))

\* parse_coverage_data_for_class
ParseCoverageDataForClass(doc, i) ==
    LET c == ClassifyLines(FindAllLines(doc, i), <<>>, <<>>)
        total_lines == Len(c[1]) + Len(c[2])
    IN Triple(c[1], c[2], Percentage(Len(c[1]), total_lines))

\* Deduplicate that leaves the covered lines among the missed ones
DeduplicateKeepingMissed(all_covered, all_missed) ==
    LET covered_set == ToSet(all_covered)
        missed_set == ToSet(all_missed)
        total_lines == Cardinality(covered_set) + Cardinality(missed_set)
    IN Triple(ToList(covered_set), ToList(missed_set),
              Percentage(Cardinality(covered_set), total_lines))

\* Deduplicate and compute coverage
Deduplicate(all_covered, all_missed) ==
    LET covered_set == ToSet(all_covered)
        missed_set == ToSet(all_missed) \ covered_set
        total_lines == Cardinality(covered_set) + Cardinality(missed_set)
    IN Triple(ToList(covered_set), ToList(missed_set),
              Percentage(Cardinality(covered_set), total_lines))

\* CollectMatching that takes every class element that has a filename
RECURSIVE CollectMatchingAny(_, _, _, _, _)
CollectMatchingAny(doc, i, fname, all_covered, all_missed) ==
    IF i > Len(doc) THEN <<all_covered, all_missed>>
    ELSE IF Truthy(doc[i].filename)
         THEN LET c == ParseCoverageDataForClass(doc, i)
              IN CollectMatchingAny(doc, i + 1, fname,
                                    all_covered \o c.covered, all_missed \o c.missed)
         ELSE CollectMatchingAny(doc, i + 1, fname, all_covered, all_missed)

\* The loop over root.findall(".//class") when a filename is given
RECURSIVE CollectMatching(_, _, _, _, _)
CollectMatching(doc, i, fname, all_covered, all_missed) ==
    IF i > Len(doc) THEN <<all_covered, all_missed>>
    ELSE LET name_attr == doc[i].filename
         IN IF Truthy(name_attr) /\ EndsWith(name_attr, fname)
            THEN LET c == ParseCoverageDataForClass(doc, i)
                 IN CollectMatching(doc, i + 1, fname,
                                    all_covered \o c.covered, all_missed \o c.missed)
            ELSE CollectMatching(doc, i + 1, fname, all_covered, all_missed)

CoberturaSingleFile(doc, fname) ==
    LET all == CollectMatching(doc, 1, fname, <<>>, <<>>)
    IN Deduplicate(all[1], all[2])

\* CollectByFilename that assigns a class's lines to its key instead of extending
RECURSIVE CollectByFilenameOverwriting(_, _, _)
CollectByFilenameOverwriting(doc, i, file_map) ==
    IF i > Len(doc) THEN file_map
    ELSE LET cls_filename == doc[i].filename
         IN IF Truthy(cls_filename)
            THEN LET c == ParseCoverageDataForClass(doc, i)
                     new == <<c.covered, c.missed>>
                 IN CollectByFilenameOverwriting(doc, i + 1,
                        [k \in DOMAIN file_map \cup {cls_filename} |->
                            IF k = cls_filename THEN new ELSE file_map[k]])
            ELSE CollectByFilenameOverwriting(doc, i + 1, file_map)

\* The loop over root.findall(".//class") that groups by filename: file_map
RECURSIVE CollectByFilename(_, _, _)
CollectByFilename(doc, i, file_map) ==
    IF i > Len(doc) THEN file_map
    ELSE LET cls_filename == doc[i].filename
         IN IF Truthy(cls_filename)
            THEN LET c == ParseCoverageDataForClass(doc, i)
                     old == IF cls_filename \in DOMAIN file_map
                            THEN file_map[cls_filename] ELSE <<<<>>, <<>>>>
                     new == <<old[1] \o c.covered, old[2] \o c.missed>>
                 IN CollectByFilename(doc, i + 1,
                        [k \in DOMAIN file_map \cup {cls_filename} |->
                            IF k = cls_filename THEN new ELSE file_map[k]])
            ELSE CollectByFilename(doc, i + 1, file_map)

CoberturaAllFiles(doc) ==
    LET file_map == CollectByFilename(doc, 1, <<>>)
    IN [f_name \in DOMAIN file_map |->
           Deduplicate(file_map[f_name][1], file_map[f_name][2])]

\* parse_coverage_report_cobertura(filename)
ParseCobertura(doc, fname) ==
    IF Truthy(fname)
    THEN TripleResult(CoberturaSingleFile(doc, fname))
    ELSE MappingResult(CoberturaAllFiles(doc))

(***************************************************************************)
(* LCOV parser                                                             *)
(***************************************************************************)
\* LcovScan whose inner loop does not stop at end_of_record
RECURSIVE LcovScanWithoutBreak(_, _, _, _, _, _)
LcovScanWithoutBreak(file, fname, pos, inner, lines_covered, lines_missed) ==
    IF pos > Len(file) THEN <<lines_covered, lines_missed>>
    ELSE LET line == file[pos]
         IN IF ~inner
            THEN LcovScanWithoutBreak(file, fname, pos + 1,
                          StartsWith(line, <<"SF:">>) /\ EndsWith(line, fname),
                          lines_covered, lines_missed)
            ELSE IF StartsWith(line, <<"DA:">>)
            THEN LET fields == Split(Remove(line, "DA:"), ",")
                     line_number == fields[1][1]
                     hits == fields[2][1]
                 IN IF ParseInt(hits) > 0
                    THEN LcovScanWithoutBreak(file, fname, pos + 1, TRUE,
                                  Append(lines_covered, ParseInt(line_number)), lines_missed)
                    ELSE LcovScanWithoutBreak(file, fname, pos + 1, TRUE,
                                  lines_covered, Append(lines_missed, ParseInt(line_number)))
            ELSE LcovScanWithoutBreak(file, fname, pos + 1, TRUE, lines_covered, lines_missed)

\* The two nested loops over the one file iterator: pos is the next text line
\* to read, inner tells which loop reads it
RECURSIVE LcovScan(_, _, _, _, _, _)
LcovScan(file, fname, pos, inner, lines_covered, lines_missed) ==
    IF pos > Len(file) THEN <<lines_covered, lines_missed>>
    ELSE LET line == file[pos]
         IN IF ~inner
            THEN LcovScan(file, fname, pos + 1,
                          StartsWith(line, <<"SF:">>) /\ EndsWith(line, fname),
                          lines_covered, lines_missed)
            ELSE IF StartsWith(line, <<"DA:">>)
            THEN LET fields == Split(Remove(line, "DA:"), ",")
                     line_number == fields[1][1]
                     hits == fields[2][1]
                 IN IF ParseInt(hits) > 0
                    THEN LcovScan(file, fname, pos + 1, TRUE,
                                  Append(lines_covered, ParseInt(line_number)), lines_missed)
                    ELSE LcovScan(file, fname, pos + 1, TRUE,
                                  lines_covered, Append(lines_missed, ParseInt(line_number)))
            ELSE IF StartsWith(line, <<"end_of_record">>)
            THEN LcovScan(file, fname, pos + 1, FALSE, lines_covered, lines_missed)
            ELSE LcovScan(file, fname, pos + 1, TRUE, lines_covered, lines_missed)

\* parse_coverage_report_lcov
ParseLcov(file, path) ==
    LET c == LcovScan(file, Basename(path), 1, FALSE, <<>>, <<>>)
        total_lines == Len(c[1]) + Len(c[2])
    IN TripleResult(Triple(c[1], c[2], Percentage(Len(c[1]), total_lines)))

(***************************************************************************)
(* diff-cover parser                                                       *)
(***************************************************************************)
\* FirstMatch that compares the trailing characters of the key, not its components
RECURSIVE FirstMatchRawSuffix(_, _, _)
FirstMatchRawSuffix(src_stats, i, src_relative_components) ==
    IF i > Len(src_stats) THEN 0
    ELSE IF EndsWith(src_stats[i].key, Join(src_relative_components))
         THEN i
         ELSE FirstMatchRawSuffix(src_stats, i + 1, src_relative_components)

\* The loop over report_data["src_stats"].items(): the index of the first item
\* whose trailing components are the target's, or 0
RECURSIVE FirstMatch(_, _, _)
FirstMatch(src_stats, i, src_relative_components) ==
    IF i > Len(src_stats) THEN 0
    ELSE LET file_path_components == Split(src_stats[i].key, Sep)
         IN IF LastN(file_path_components, Len(src_relative_components))
                 = src_relative_components
            THEN i
            ELSE FirstMatch(src_stats, i + 1, src_relative_components)

\* parse_json_diff_coverage_report
ParseJsonDiff(src_stats, path) ==
    LET m == FirstMatch(src_stats, 1, RelpathComponents(path))
    IN IF m # 0
       THEN LET relevant_stats == src_stats[m].stats
            IN TripleResult(Triple(relevant_stats.covered_lines,
                                   relevant_stats.violation_lines,
                                   <<relevant_stats.percent_covered, 100>>))
       ELSE TripleResult(Triple(<<>>, <<>>, <<0, 1>>))

(***************************************************************************)
(* The processor                                                           *)
(***************************************************************************)
FilePath == <<"fake_path">>             \* self.file_path

DiffPath == <<"diff_coverage.json">>    \* self.diff_coverage_report_path

Raise(type, names) == [type |-> type, names |-> names]

\* State after construction; the report holds what its declared type reads
Init ==
    /\ coverage_type \in CoverageTypes
    /\ flag \in BOOLEAN
    /\ src_file_path \in SourcePaths
    /\ reportExists \in BOOLEAN
    /\ xml \in IF reportExists /\ coverage_type = "cobertura" THEN XmlDocs ELSE {<<>>}
    /\ lcov \in IF reportExists /\ coverage_type = "lcov"
                THEN LcovReports(MaxLcovLines) ELSE {<<>>}
    /\ diff \in IF coverage_type = "diff_cover_json" THEN DiffReports ELSE {<<>>}
    /\ pc = "start"
    /\ entry = "none"
    /\ time_of_test_command = NoTime
    /\ file_mod_time_ms = NoTime
    /\ filename = None
    /\ calls = <<>>
    /\ opened = {}
    /\ log = <<>>
    /\ result = NoResult
    /\ error = NoError

\* VerifyExists without the assertion
VerifyExistsUnchecked(exists) == "verified"

\* verify_report_update: the assertion that the report exists
VerifyExists(exists) == IF exists THEN "verified" ELSE "raised"

\* VerifyLog that takes a report as old as the test run for fresh
VerifyLogEqualIsFresh(mtime, t) == IF mtime < t THEN <<"warning">> ELSE <<>>

\* verify_report_update, given the file's modification time in milliseconds:
\* the records it logs
VerifyLog(mtime, t) == IF ~(mtime > t) THEN <<"warning">> ELSE <<>>

\* process_coverage_report(t) up to the return of verify_report_update
ProcessCoverageReport ==
    /\ pc = "start"
    /\ \E t \in 0..MaxTime :
        /\ entry' = "process"
        /\ time_of_test_command' = t
        /\ calls' = calls \o <<"process_coverage_report", "verify_report_update">>
        /\ IF VerifyExists(reportExists) = "raised"
           THEN /\ error' = Raise("AssertionError", FilePath)
                /\ pc' = "raised"
                /\ UNCHANGED <<file_mod_time_ms, log>>
           ELSE \E mtime \in 0..MaxTime :
                /\ file_mod_time_ms' = mtime
                /\ log' = log \o VerifyLog(mtime, t)
                /\ pc' = "verified"
                /\ UNCHANGED error
    /\ UNCHANGED <<config, filename, opened, result>>

\* Dispatch that falls back to the LCOV parser for a type it does not know
DispatchDefaulting(type, useFlag, path) ==
    IF useFlag
    THEN IF type = "cobertura" THEN [to |-> "cobertura", filename |-> None]
         ELSE [to |-> "lcov", filename |-> None]
    ELSE IF type = "cobertura" THEN [to |-> "cobertura", filename |-> Basename(path)]
         ELSE IF type = "diff_cover_json" THEN [to |-> "diff", filename |-> None]
         ELSE [to |-> "lcov", filename |-> None]

\* Dispatch that accepts diff_cover_json whatever the feature flag
DispatchDiffUnderFlag(type, useFlag, path) ==
    IF type = "cobertura"
    THEN [to |-> "cobertura", filename |-> IF useFlag THEN None ELSE Basename(path)]
    ELSE IF type = "lcov" THEN [to |-> "lcov", filename |-> None]
    ELSE IF type = "diff_cover_json" THEN [to |-> "diff", filename |-> None]
    ELSE [to |-> "raised", filename |-> None]

\* The branch parse_coverage_report takes: the parser it calls and the filename
\* argument it passes, or the error it raises
Dispatch(type, useFlag, path) ==
    IF useFlag
    THEN IF type = "cobertura" THEN [to |-> "cobertura", filename |-> None]
         ELSE IF type = "lcov" THEN [to |-> "lcov", filename |-> None]
         ELSE [to |-> "raised", filename |-> None]
    ELSE IF type = "cobertura" THEN [to |-> "cobertura", filename |-> Basename(path)]
         ELSE IF type = "lcov" THEN [to |-> "lcov", filename |-> None]
         ELSE IF type = "diff_cover_json" THEN [to |-> "diff", filename |-> None]
         ELSE [to |-> "raised", filename |-> None]

\* parse_coverage_report, called by process_coverage_report or by the caller;
\* the timestamps verify_report_update compared are out of scope from here on
ParseCoverageReport ==
    /\ pc \in {"start", "verified"}
    /\ entry' = IF pc = "start" THEN "parse" ELSE entry
    /\ calls' = Append(calls, "parse_coverage_report")
    /\ time_of_test_command' = NoTime
    /\ file_mod_time_ms' = NoTime
    /\ LET d == Dispatch(coverage_type, flag, src_file_path)
       IN /\ pc' = d.to
          /\ filename' = d.filename
          /\ error' = IF d.to = "raised"
                      THEN Raise("ValueError", <<coverage_type>>) ELSE error
    /\ UNCHANGED <<config, opened, log, result>>

\* parse_coverage_report_cobertura
ParseCoverageReportCobertura ==
    /\ pc = "cobertura"
    /\ calls' = Append(calls, "parse_coverage_report_cobertura")
    /\ IF ~reportExists
       THEN /\ error' = Raise("FileNotFoundError", FilePath)
            /\ pc' = "raised"
            /\ UNCHANGED <<opened, result>>
       ELSE /\ opened' = opened \cup {FilePath}
            /\ result' = ParseCobertura(xml, filename)
            /\ pc' = "returned"
            /\ UNCHANGED error
    /\ UNCHANGED <<config, entry, time_of_test_command, file_mod_time_ms, filename, log>>

\* parse_coverage_report_lcov
ParseCoverageReportLcov ==
    /\ pc = "lcov"
    /\ calls' = Append(calls, "parse_coverage_report_lcov")
    /\ IF ~reportExists
       THEN /\ log' = Append(log, "error")
            /\ error' = Raise("FileNotFoundError", FilePath)
            /\ pc' = "raised"
            /\ UNCHANGED <<opened, result>>
       ELSE /\ opened' = opened \cup {FilePath}
            /\ result' = ParseLcov(lcov, src_file_path)
            /\ pc' = "returned"
            /\ UNCHANGED <<log, error>>
    /\ UNCHANGED <<config, entry, time_of_test_command, file_mod_time_ms, filename>>

\* parse_json_diff_coverage_report
ParseJsonDiffCoverageReport ==
    /\ pc = "diff"
    /\ calls' = Append(calls, "parse_json_diff_coverage_report")
    /\ opened' = opened \cup {DiffPath}
    /\ result' = ParseJsonDiff(diff, src_file_path)
    /\ pc' = "returned"
    /\ UNCHANGED <<config, entry, time_of_test_command, file_mod_time_ms, filename, log, error>>

Next ==
    \/ ProcessCoverageReport
    \/ ParseCoverageReport
    \/ ParseCoverageReportCobertura
    \/ ParseCoverageReportLcov
    \/ ParseJsonDiffCoverageReport

Spec == Init /\ [][Next]_vars

(***************************************************************************)
(* Properties                                                              *)
(***************************************************************************)
\* The triples a returned value holds
ReturnedTriples ==
    IF pc # "returned" THEN {}
    ELSE IF result.kind = "triple" THEN {result.triple}
    ELSE {result.data[k] : k \in DOMAIN result.data}

Called(name) == \E i \in 1..Len(calls) : calls[i] = name

ParserNames ==
    {"parse_coverage_report_cobertura", "parse_coverage_report_lcov",
     "parse_json_diff_coverage_report"}

NoDuplicates(s) == \A i, j \in 1..Len(s) : s[i] = s[j] => i = j

\* Class element j is class element i or lies inside it
Inside(doc, j, i) ==
    \/ j = i
    \/ /\ ~doc[i].nested
       /\ j > i
       /\ \A k \in (i + 1)..j : doc[k].nested

\* The line numbers that class element i of the document reports with hits
\* satisfying Hit (line elements of class elements inside it included)
LinesOfClass(doc, i, Hit(_)) ==
    {n \in LineNumbers :
        \E j \in 1..Len(doc) :
            /\ Inside(doc, j, i)
            /\ \E x \in 1..Len(doc[j].lines) :
                  /\ ParseInt(doc[j].lines[x].number) = n
                  /\ Hit(ParseInt(doc[j].lines[x].hits))}

IsHit(h) == h > 0

IsMiss(h) == h <= 0

\* The merge rule over the class elements of the document that satisfy Sel:
\* union of covered, union of missed minus covered
MergedCovered(doc, Sel(_)) ==
    UNION {LinesOfClass(doc, i, IsHit) : i \in {j \in 1..Len(doc) : Sel(doc[j].filename)}}

MergedMissed(doc, Sel(_)) ==
    UNION {LinesOfClass(doc, i, IsMiss) : i \in {j \in 1..Len(doc) : Sel(doc[j].filename)}}
        \ MergedCovered(doc, Sel)

\* A triple is the merge of the class elements that satisfy Sel
IsMergeOf(t, doc, Sel(_)) ==
    LET c == MergedCovered(doc, Sel)
        m == MergedMissed(doc, Sel)
    IN /\ ToSet(t.covered) = c
       /\ ToSet(t.missed) = m
       /\ NoDuplicates(t.covered)
       /\ NoDuplicates(t.missed)
       /\ RatioEq(t.ratio, Percentage(Cardinality(c), Cardinality(c) + Cardinality(m)))

\* C1: in every triple a parser returns, no line number is both covered and missed
C1_CoveredMissedDisjoint ==
    \A t \in ReturnedTriples : ToSet(t.covered) \cap ToSet(t.missed) = {}

\* C2: in every triple a parser returns, the ratio is the number of distinct
\* covered lines over the number of distinct covered plus distinct missed lines,
\* and 0 when there are none
C2_RatioOfDistinctLines ==
    \A t \in ReturnedTriples :
        LET c == Cardinality(ToSet(t.covered))
            m == Cardinality(ToSet(t.missed))
        IN RatioEq(t.ratio, Percentage(c, c + m))

\* A Cobertura parse has returned in single-file mode
CoberturaSingleReturned ==
    /\ pc = "returned"
    /\ Called("parse_coverage_report_cobertura")
    /\ Truthy(filename)

\* C3: Cobertura single-file mode returns as covered the lines with hits > 0 in
\* some class whose filename ends with the target filename, as missed the lines
\* with hits <= 0 in some such class minus the covered ones, each line once
C3_CoberturaSingleFile ==
    CoberturaSingleReturned =>
        /\ result.kind = "triple"
        /\ LET Sel(f) == Truthy(f) /\ EndsWith(f, filename)
           IN IsMergeOf(result.triple, xml, Sel)

\* C3 witness: a line with hits > 0 in one matching class and hits = 0 in
\* another is returned as covered only
C3_Witness ==
    /\ CoberturaSingleReturned
    /\ \E i, j \in 1..Len(xml) :
          /\ i # j
          /\ ~xml[j].nested
          /\ EndsWith(xml[i].filename, filename) /\ EndsWith(xml[j].filename, filename)
          /\ xml[i].lines = <<[number |-> "1", hits |-> "1"]>>
          /\ xml[j].lines = <<[number |-> "1", hits |-> "0"]>>
    /\ result.triple.covered = <<1>>
    /\ result.triple.missed = <<>>

\* A Cobertura parse has returned in all-files mode
CoberturaAllReturned ==
    /\ pc = "returned"
    /\ Called("parse_coverage_report_cobertura")
    /\ ~Truthy(filename)

\* C4: Cobertura all-files mode returns a mapping whose keys are the distinct
\* non-empty filename attributes, each with the merge of the classes of exactly
\* that filename
C4_CoberturaAllFiles ==
    CoberturaAllReturned =>
        /\ result.kind = "mapping"
        /\ DOMAIN result.data =
               {xml[i].filename : i \in {j \in 1..Len(xml) : xml[j].filename # <<>>}}
        /\ \A k \in DOMAIN result.data :
               LET Sel(f) == f = k
               IN IsMergeOf(result.data[k], xml, Sel)

\* C4 witness: with the flag on, two classes of one filename, one reporting a
\* line hit and the other reporting it missed, are merged under that one key
C4_Witness ==
    /\ CoberturaAllReturned
    /\ flag
    /\ Len(xml) = 2
    /\ xml[1].filename = <<"p", "/", "a">> /\ xml[2].filename = <<"p", "/", "a">>
    /\ xml[1].lines = <<[number |-> "2", hits |-> "0"]>>
    /\ xml[2].lines = <<[number |-> "2", hits |-> "1"]>>
    /\ ~xml[2].nested
    /\ DOMAIN result.data = {<<"p", "/", "a">>}
    /\ result.data[<<"p", "/", "a">>].covered = <<2>>
    /\ result.data[<<"p", "/", "a">>].missed = <<>>

\* C5: an unsupported coverage type makes parse_coverage_report raise a
\* ValueError naming the type, under either value of the feature flag, with no
\* parser entered, no file opened and nothing returned
C5_UnsupportedTypeRaises ==
    (coverage_type \notin SupportedTypes /\ Called("parse_coverage_report")) =>
        /\ pc = "raised"
        /\ error = Raise("ValueError", <<coverage_type>>)
        /\ \A n \in ParserNames : ~Called(n)
        /\ opened = {}
        /\ result = NoResult

\* C5 witness: the dispatcher has rejected an unsupported type with the flag on
C5_Witness ==
    /\ coverage_type = "jacoco"
    /\ flag
    /\ Called("parse_coverage_report")
    /\ error.type = "ValueError"

\* C6: with the feature flag on, cobertura and lcov both return a mapping keyed
\* by filename
C6_FlagReturnsMapping ==
    (flag /\ coverage_type \in {"cobertura", "lcov"} /\ pc = "returned") =>
        result.kind = "mapping"

\* C7: with the feature flag off, every supported type returns a single-file
\* triple, whatever the target source path
C7_NoFlagReturnsTriple ==
    (~flag /\ pc = "returned") => result.kind = "triple"

\* C8: diff_cover_json reaches the diff-cover parser exactly when the feature
\* flag is off; with the flag on the dispatcher raises the unsupported-type
\* ValueError and the diff report is never opened
C8_DiffCoverOnlyWithoutFlag ==
    (coverage_type = "diff_cover_json" /\ Called("parse_coverage_report")) =>
        IF flag
        THEN /\ pc = "raised"
             /\ error = Raise("ValueError", <<"diff_cover_json">>)
             /\ ~Called("parse_json_diff_coverage_report")
             /\ DiffPath \notin opened
        ELSE /\ pc \in {"diff", "returned"}
             /\ error = NoError
             /\ pc = "returned" =>
                    /\ Called("parse_json_diff_coverage_report")
                    /\ DiffPath \in opened

\* C8 witness: a diff-cover report with entries is refused under the flag
C8_Witness ==
    /\ coverage_type = "diff_cover_json"
    /\ flag
    /\ diff # <<>>
    /\ pc = "raised"
    /\ entry = "parse"

\* The value parse_coverage_report returns for the configuration
ParseValue ==
    LET d == Dispatch(coverage_type, flag, src_file_path)
    IN IF d.to = "cobertura" THEN ParseCobertura(xml, d.filename)
       ELSE IF d.to = "lcov" THEN ParseLcov(lcov, src_file_path)
       ELSE IF d.to = "diff" THEN ParseJsonDiff(diff, src_file_path)
       ELSE NoResult

\* C9: process_coverage_report verifies once and first; a missing report raises
\* an AssertionError naming the path before the dispatcher or any parser is
\* entered and nothing is returned; otherwise it returns what
\* parse_coverage_report returns
C9_VerifyOnceBeforeParsing ==
    entry = "process" =>
        /\ SubSeq(calls, 1, 2) = <<"process_coverage_report", "verify_report_update">>
        /\ \A i \in 3..Len(calls) : calls[i] # "verify_report_update"
        /\ ~reportExists =>
               /\ pc = "raised"
               /\ error = Raise("AssertionError", FilePath)
               /\ Len(calls) = 2
               /\ opened = {}
               /\ result = NoResult
        /\ pc = "returned" => result = ParseValue

\* C9 witness: the report is missing and process_coverage_report has raised
C9_Witness ==
    /\ entry = "process"
    /\ ~reportExists
    /\ coverage_type = "lcov"
    /\ pc = "raised"

KeyNamesTarget(key, path) ==
    LET t == Join(RelpathComponents(path))
    IN key = t \/ EndsWith(key, <<Sep>> \o t)

\* A parser has returned or raised
Finished(parser) == Called(parser) /\ pc \in {"returned", "raised"}

EmptyTriple(r) ==
    /\ r.kind = "triple"
    /\ r.triple.covered = <<>>
    /\ r.triple.missed = <<>>
    /\ RatioEq(r.triple.ratio, <<0, 1>>)

\* The target is absent from the report the parser reads
CoberturaTargetAbsent ==
    /\ Truthy(filename)
    /\ \A i \in 1..Len(xml) : ~EndsWith(xml[i].filename, filename)

LcovTargetAbsent ==
    \A i \in 1..Len(lcov) :
        StartsWith(lcov[i], <<"SF:">>) => ~EndsWith(lcov[i], Basename(src_file_path))

DiffTargetAbsent ==
    \A i \in 1..Len(diff) : ~KeyNamesTarget(diff[i].key, src_file_path)

\* C11: when the target file is absent from a readable report, each single-file
\* parser returns empty covered, empty missed and ratio 0 and does not raise
C11_AbsentTargetIsEmpty ==
    /\ (Finished("parse_coverage_report_cobertura") /\ reportExists
            /\ CoberturaTargetAbsent) =>
           pc = "returned" /\ error = NoError /\ EmptyTriple(result)
    /\ (Finished("parse_coverage_report_lcov") /\ reportExists /\ LcovTargetAbsent) =>
           pc = "returned" /\ error = NoError /\ EmptyTriple(result)
    /\ (Finished("parse_json_diff_coverage_report") /\ DiffTargetAbsent) =>
           pc = "returned" /\ error = NoError /\ EmptyTriple(result)

\* C11 witness: a Cobertura report with a hit line for another file only
C11_Witness ==
    /\ Finished("parse_coverage_report_cobertura")
    /\ src_file_path = <<"b">>
    /\ Len(xml) = 1
    /\ xml[1].filename = <<"q", "/", "a">>
    /\ xml[1].lines = <<[number |-> "1", hits |-> "1"]>>
    /\ EmptyTriple(result)

\* C11 witness for LCOV: a record of another file with a hit line
C11_WitnessLcov ==
    /\ Finished("parse_coverage_report_lcov")
    /\ lcov = <<SFLine(<<"m", "a">>), DALine(1, 1), EndOfRecord>>
    /\ LcovTargetAbsent
    /\ EmptyTriple(result)

\* C11 witness for diff-cover: keys that do not name the target
C11_WitnessDiff ==
    /\ Finished("parse_json_diff_coverage_report")
    /\ src_file_path = <<"q", "/", "a">>
    /\ Len(diff) = MaxStats
    /\ DiffTargetAbsent
    /\ EmptyTriple(result)

IsSF(line) == StartsWith(line, <<"SF:">>)

IsDA(line) == StartsWith(line, <<"DA:">>)

\* The SF line that opens the record text line i of a well-formed report lies in
RecordStart(file, i) ==
    CHOOSE j \in 1..i : IsSF(file[j]) /\ \A k \in (j + 1)..i : ~IsSF(file[k])

\* The filename an SF line names
SFName(line) == Tail(line)

\* Text line i is a DA line of a record whose filename ends with fname
ContributingDA(file, i, fname) ==
    /\ IsDA(file[i])
    /\ EndsWith(SFName(file[RecordStart(file, i)]), fname)

DANumber(line) == ParseInt(line[2])

DAHits(line) == ParseInt(line[4])

\* The line numbers of the text lines at the positions P, in report order
NumbersAt(file, P) ==
    LET at == ToList(P)
    IN [k \in 1..Len(at) |-> DANumber(file[at[k]])]

\* An LCOV parse has returned
LcovReturned == pc = "returned" /\ Called("parse_coverage_report_lcov")

\* C12: LCOV parsing of well-formed records returns as covered the line numbers
\* of the DA lines with hits > 0 that lie in a record whose SF filename ends with
\* the target filename, as missed those of its other DA lines, and nothing from
\* DA lines of other records or from lines of any other type
C12_LcovContributions ==
    LcovReturned =>
        LET fname == Basename(src_file_path)
            DAs == {i \in 1..Len(lcov) : ContributingDA(lcov, i, fname)}
        IN /\ result.kind = "triple"
           /\ result.triple.covered =
                  NumbersAt(lcov, {i \in DAs : DAHits(lcov[i]) > 0})
           /\ result.triple.missed =
                  NumbersAt(lcov, {i \in DAs : ~(DAHits(lcov[i]) > 0)})

\* C12 witness: a record of another file with a DA line comes before the
\* target's record, and only the target's DA line is returned
C12_Witness ==
    /\ LcovReturned
    /\ src_file_path = <<"q", "/", "a">>
    /\ Len(lcov) > 3
    /\ lcov[1] = SFLine(<<"b">>)
    /\ lcov[2] = DALine(1, 1)
    /\ lcov[3] = EndOfRecord
    /\ lcov[4] = SFLine(<<"q", "/", "a">>)
    /\ result.triple.covered = <<>>
    /\ result.triple.missed = <<>>

\* C12 witness: in the target's record a hit DA line, an FN line and a missed
\* DA line yield one covered and one missed line
C12_WitnessRecord ==
    /\ LcovReturned
    /\ src_file_path = <<"q", "/", "a">>
    /\ lcov = <<SFLine(<<"q", "/", "a">>), DALine(1, 1), FNLine, DALine(2, 0), EndOfRecord>>
    /\ result.triple.covered = <<1>>
    /\ result.triple.missed = <<2>>

\* The SF line of the first record whose filename ends with fname, or 0
FirstMatchingRecord(file, fname) ==
    LET S == {j \in 1..Len(file) : IsSF(file[j]) /\ EndsWith(SFName(file[j]), fname)}
    IN IF S = {} THEN 0 ELSE CHOOSE j \in S : \A k \in S : j <= k

\* C13: LCOV single-file parsing returns what the first record whose SF filename
\* ends with the target filename holds; no later record changes the covered
\* list, the missed list or the ratio
C13_LcovFirstRecordOnly ==
    LcovReturned =>
        LET fname == Basename(src_file_path)
            first == FirstMatchingRecord(lcov, fname)
            DAs == {i \in 1..Len(lcov) :
                       IsDA(lcov[i]) /\ first # 0 /\ RecordStart(lcov, i) = first}
            c == NumbersAt(lcov, {i \in DAs : DAHits(lcov[i]) > 0})
            m == NumbersAt(lcov, {i \in DAs : ~(DAHits(lcov[i]) > 0)})
        IN /\ result.triple.covered = c
           /\ result.triple.missed = m
           /\ RatioEq(result.triple.ratio, Percentage(Len(c), Len(c) + Len(m)))

\* A diff-cover parse has returned
DiffReturned == pc = "returned" /\ Called("parse_json_diff_coverage_report")

\* C14: the diff-cover parser returns covered_lines, violation_lines and
\* percent_covered / 100 of the first src_stats key whose trailing path
\* components are the target path's components, nothing from any later key, and
\* the empty triple when no key matches
C14_DiffFirstComponentMatch ==
    DiffReturned =>
        LET M == {i \in 1..Len(diff) : KeyNamesTarget(diff[i].key, src_file_path)}
        IN IF M = {} THEN EmptyTriple(result)
           ELSE LET first == CHOOSE i \in M : \A k \in M : i <= k
                IN /\ result.kind = "triple"
                   /\ result.triple.covered = diff[first].stats.covered_lines
                   /\ result.triple.missed = diff[first].stats.violation_lines
                   /\ RatioEq(result.triple.ratio,
                              <<diff[first].stats.percent_covered, 100>>)

\* C14 witness: of two keys that match, the stats of the first are returned and
\* nothing of the second
C14_Witness ==
    /\ DiffReturned
    /\ src_file_path = <<"q", "/", "a">>
    /\ Len(diff) = 2
    /\ diff[1].key = <<"r", "/", "q", "/", "a">>
    /\ diff[2].key = <<"q", "/", "a">>
    /\ diff[1].stats.covered_lines = <<1, 2>>
    /\ diff[2].stats.covered_lines = <<>>
    /\ result.triple.covered = <<1, 2>>

\* C14 witness: keys with a longer last-but-one component, or with fewer
\* components than the target, are passed over
C14_WitnessPassedOver ==
    /\ DiffReturned
    /\ src_file_path = <<"q", "/", "a">>
    /\ Len(diff) = 2
    /\ diff[1].key = <<"m", "q", "/", "a">>
    /\ diff[2].key = <<"a">>
    /\ EmptyTriple(result)

\* The line numbers of the line elements class element i holds itself, not
\* those of class elements nested in it
OwnLines(doc, i) ==
    {ParseInt(doc[i].lines[x].number) : x \in 1..Len(doc[i].lines)}

\* The line numbers a triple lists
ListedLines(t) == ToSet(t.covered) \cup ToSet(t.missed)

\* C15: each Cobertura line element is classified only under the filename of its
\* nearest enclosing class element, in single-file and in all-files mode
C15_NearestEnclosingClass ==
    /\ CoberturaSingleReturned =>
           ListedLines(result.triple) \subseteq
               UNION {OwnLines(xml, i) :
                         i \in {j \in 1..Len(xml) : EndsWith(xml[j].filename, filename)}}
    /\ CoberturaAllReturned =>
           \A k \in DOMAIN result.data :
               ListedLines(result.data[k]) \subseteq
                   UNION {OwnLines(xml, i) :
                             i \in {j \in 1..Len(xml) : xml[j].filename = k}}

\* The report entry name and the target path name the same file: one is the
\* other, or ends with a separator followed by the other
SameFile(name, path) ==
    LET t == Join(RelpathComponents(path))
    IN name # <<>> /\ (name = t \/ EndsWith(name, <<Sep>> \o t)
                                \/ EndsWith(t, <<Sep>> \o name))

\* C16: with the flag off, a cobertura or lcov result for a target path that
\* names a file lists only lines of report entries that refer to that file
C16_OnlyTargetFileLines ==
    (~flag /\ pc = "returned" /\ result.kind = "triple"
        /\ Basename(src_file_path) # <<>>) =>
        /\ Called("parse_coverage_report_cobertura") =>
               ListedLines(result.triple) \subseteq
                   UNION {LinesOfClass(xml, i, IsHit) \cup LinesOfClass(xml, i, IsMiss) :
                             i \in {j \in 1..Len(xml) :
                                        SameFile(xml[j].filename, src_file_path)}}
        /\ Called("parse_coverage_report_lcov") =>
               ListedLines(result.triple) \subseteq
                   {DANumber(lcov[i]) :
                       i \in {j \in 1..Len(lcov) :
                                  /\ IsDA(lcov[j])
                                  /\ SameFile(SFName(lcov[RecordStart(lcov, j)]),
                                              src_file_path)}}

====
